---- MODULE Spec2Model ----
(***************************************************************************)
(* Model of pyaifchunk.core_chunk.Chunk: a bounded reader over one chunk   *)
(* of an IFF-style container held in a seekable byte stream (io.BytesIO in *)
(* TestCase.py).  Several Chunk objects may share the one stream; the      *)
(* stream's cursor is the only state they have in common.                  *)
(***************************************************************************)
EXTENDS Integers, Sequences, FiniteSets, TLC

VARIABLES
    layout,   \* payload lengths of the chunks create_chunk wrote, in order
    fmt,      \* the flags create_chunk wrote them with
    opts,     \* the flags the caller passes to every Chunk(...)
    stream,   \* the bytes of the io.BytesIO
    pos,      \* the cursor of the io.BytesIO
    readers,  \* the Chunk objects, by variable
    last      \* the last call: its arguments and its outcome

vars == <<layout, fmt, opts, stream, pos, readers, last>>

-----------------------------------------------------------------------------
(* Bounds *)

MaxLen == 2        \* payload lengths 0..MaxLen
MaxSize == 10      \* the largest data size a parsed header may declare
MaxArg == 2        \* read sizes -1..MaxArg, seek offsets -MaxArg..MaxArg

HEADER == 8        \* bytes in a chunk header

\* The variables of TestCase.py that hold Chunk objects
Readers == {"c1", "c2"}
Flags == [align : BOOLEAN, bigendian : BOOLEAN, inclheader : BOOLEAN]

Min(a, b) == IF a < b THEN a ELSE b

-----------------------------------------------------------------------------
(* Bytes and the container writer of TestCase.py *)

\* int.to_bytes(4, byteorder)
to_bytes(v, big) ==
    LET b3 == (v \div 16777216) % 256
        b2 == (v \div 65536) % 256
        b1 == (v \div 256) % 256
        b0 == v % 256
    IN  IF big THEN <<b3, b2, b1, b0>> ELSE <<b0, b1, b2, b3>>

\* int.from_bytes(size_field, byteorder)
from_bytes(b, big) ==
    IF big
    THEN b[1] * 16777216 + b[2] * 65536 + b[3] * 256 + b[4]
    ELSE b[4] * 16777216 + b[3] * 65536 + b[2] * 256 + b[1]

\* The identifier of the k-th chunk: opaque bytes, b'A\0\0\0', b'B\0\0\0'
ChunkId(k) == <<64 + k, 0, 0, 0>>

\* The payload of the k-th chunk: n bytes, distinct within the container and
\* never 0 (the pad byte's value).
Payload(k, n) == [i \in 1..n |-> 16 * k + i]

\* create_chunk(chunk_id, data, bigendian, inclheader, align)
create_chunk(chunk_id, data, big, incl, align) ==
    LET data_size == Len(data)
        size_value == IF incl THEN data_size + HEADER ELSE data_size
        pad == IF align /\ data_size % 2 # 0 THEN <<0>> ELSE <<>>
    IN  chunk_id \o to_bytes(size_value, big) \o data \o pad

RECURSIVE Container(_, _, _)
\* chunk1 + chunk2 + ...: the chunks k..Len(lens) of the container
Container(lens, f, k) ==
    IF k > Len(lens) THEN <<>>
    ELSE create_chunk(ChunkId(k), Payload(k, lens[k]),
                      f.bigendian, f.inclheader, f.align)
         \o Container(lens, f, k + 1)

\* create_chunk's defaults, and each flag on its own changed from its default
Defaults == [align |-> TRUE, bigendian |-> TRUE, inclheader |-> FALSE]
Formats ==
    {Defaults, [Defaults EXCEPT !.align = FALSE],
     [Defaults EXCEPT !.bigendian = FALSE], [Defaults EXCEPT !.inclheader = TRUE]}

\* chunk1 + chunk2 of TestCase.py, with every pair of payload lengths
Layouts == [1..2 -> 0..MaxLen]

-----------------------------------------------------------------------------
(* The stream: io.BytesIO *)

\* the bytes file.read(n) returns at cursor p (n >= 0)
FileBytes(p, n) ==
    IF p >= Len(stream) THEN <<>>
    ELSE SubSeq(stream, p + 1, p + Min(n, Len(stream) - p))

-----------------------------------------------------------------------------
(* Chunk objects *)

NoChunk ==
    [live |-> FALSE, align |-> FALSE, bigendian |-> FALSE, inclheader |-> FALSE,
     closed |-> FALSE, name |-> <<>>, data_size |-> 0, data_start |-> 0,
     data_end |-> 0, pad |-> 0]

NoCall ==
    [op |-> "none", r |-> "", kind |-> "ok", val |-> 0, data |-> <<>>,
     arg |-> 0, whence |-> 0]

Call(op, r, kind, val, data, arg, whence) ==
    [op |-> op, r |-> r, kind |-> kind, val |-> val, data |-> data,
     arg |-> arg, whence |-> whence]

Init ==
    /\ layout \in Layouts
    /\ fmt \in Formats
    /\ opts \in {f \in Flags : f.align = fmt.align /\ f.bigendian = fmt.bigendian}
    /\ stream = Container(layout, fmt, 1)
    /\ pos = 0
    /\ readers = [r \in Readers |-> NoChunk]
    /\ last = NoCall

\* DataSize with the header never subtracted
DataSize_NoSubtract(size_value, incl) == size_value

\* The data size __init__ resolves from the decoded size field
DataSize(size_value, incl) == IF incl THEN size_value - HEADER ELSE size_value

\* Pad with the pad never accounted for
PadNever(align, data_size) == 0

\* Pad with the parity test inverted
Pad_Inverted(align, data_size) == IF align /\ data_size % 2 = 0 THEN 1 ELSE 0

\* Pad with the alignment flag ignored
Pad_IgnoreAlign(align, data_size) == IF data_size % 2 # 0 THEN 1 ELSE 0

\* The pad __init__ accounts for
Pad(align, data_size) == IF align /\ data_size % 2 # 0 THEN 1 ELSE 0

\* The data size the header at cursor p declares under flags f (0 when the
\* header is truncated)
Declared(p, f) ==
    LET header == FileBytes(p, HEADER)
    IN  IF Len(header) < HEADER THEN 0
        ELSE DataSize(from_bytes(SubSeq(header, 5, 8), f.bigendian), f.inclheader)

\* ChunkInit that takes only an empty read for the end of the stream and
\* constructs an empty chunk on a partial header
ChunkInit_PartialHeader(r, f) ==
    /\ ~readers[r].live
    /\ r = "c2" => readers["c1"].live
    /\ Declared(pos, f) <= MaxSize
    /\ LET header == FileBytes(pos, HEADER)
           size_value == from_bytes(SubSeq(header, 5, 8), f.bigendian)
           data_size == DataSize(size_value, f.inclheader)
           data_start == pos + HEADER
           pad == Pad(f.align, data_size)
       IN  /\ pos' = pos + Len(header)
           /\ IF Len(header) = 0
              THEN /\ last' = Call("init", r, "EOFError", 0, <<>>, 0, 0)
                   /\ UNCHANGED readers
              ELSE IF Len(header) < HEADER
              THEN /\ last' = Call("init", r, "ok", 0, <<>>, 0, 0)
                   /\ readers' = [readers EXCEPT ![r] =
                        [live |-> TRUE, align |-> f.align,
                         bigendian |-> f.bigendian, inclheader |-> f.inclheader,
                         closed |-> FALSE, name |-> header,
                         data_size |-> 0, data_start |-> pos + Len(header),
                         data_end |-> pos + Len(header), pad |-> 0]]
              ELSE IF f.inclheader /\ size_value < HEADER
              THEN /\ last' = Call("init", r, "ValueError", 0, <<>>, 0, 0)
                   /\ UNCHANGED readers
              ELSE /\ last' = Call("init", r, "ok", 0, <<>>, 0, 0)
                   /\ readers' = [readers EXCEPT ![r] =
                        [live |-> TRUE, align |-> f.align,
                         bigendian |-> f.bigendian, inclheader |-> f.inclheader,
                         closed |-> FALSE, name |-> SubSeq(header, 1, 4),
                         data_size |-> data_size, data_start |-> data_start,
                         data_end |-> data_start + data_size + pad,
                         pad |-> pad]]
    /\ UNCHANGED <<layout, fmt, opts, stream>>

\* r = Chunk(file, align, bigendian, inclheader).  c1 is bound before c2 (the
\* two variables are interchangeable), and a header that declares more than
\* MaxSize bytes is not constructed on: data_end, and with it the cursor,
\* would leave every bound.  A construction that fails has read the header
\* bytes all the same and binds nothing.
ChunkInit(r, f) ==
    /\ ~readers[r].live
    /\ r = "c2" => readers["c1"].live
    /\ Declared(pos, f) <= MaxSize
    /\ LET header == FileBytes(pos, HEADER)
           size_value == from_bytes(SubSeq(header, 5, 8), f.bigendian)
           data_size == DataSize(size_value, f.inclheader)
           data_start == pos + HEADER
           pad == Pad(f.align, data_size)
       IN  /\ pos' = pos + Len(header)
           /\ IF Len(header) < HEADER
              THEN /\ last' = Call("init", r, "EOFError", 0, <<>>, 0, 0)
                   /\ UNCHANGED readers
              ELSE IF f.inclheader /\ size_value < HEADER
              THEN /\ last' = Call("init", r, "ValueError", 0, <<>>, 0, 0)
                   /\ UNCHANGED readers
              ELSE /\ last' = Call("init", r, "ok", 0, <<>>, 0, 0)
                   /\ readers' = [readers EXCEPT ![r] =
                        [live |-> TRUE, align |-> f.align,
                         bigendian |-> f.bigendian, inclheader |-> f.inclheader,
                         closed |-> FALSE, name |-> SubSeq(header, 1, 4),
                         data_size |-> data_size, data_start |-> data_start,
                         data_end |-> data_start + data_size + pad,
                         pad |-> pad]]
    /\ UNCHANGED <<layout, fmt, opts, stream>>

\* Chunk.getname
getname(r) ==
    /\ readers[r].live
    /\ last' = Call("getname", r, "ok", 0, readers[r].name, 0, 0)
    /\ UNCHANGED <<layout, fmt, opts, stream, pos, readers>>

\* getsize returning the extent of the chunk, pad byte included
getsize_Raw(r) ==
    /\ readers[r].live
    /\ last' = Call("getsize", r, "ok",
                    readers[r].data_end - readers[r].data_start, <<>>, 0, 0)
    /\ UNCHANGED <<layout, fmt, opts, stream, pos, readers>>

\* Chunk.getsize
getsize(r) ==
    /\ readers[r].live
    /\ last' = Call("getsize", r, "ok", readers[r].data_size, <<>>, 0, 0)
    /\ UNCHANGED <<layout, fmt, opts, stream, pos, readers>>

\* ReadLen with a size beyond the remaining bytes passed on as it is
ReadLen_Unclamped(c, size) ==
    LET remaining == c.data_end - pos
    IN  IF remaining <= 0 THEN 0
        ELSE IF size < 0 THEN remaining
        ELSE size

\* the length Chunk.read passes to file.read
ReadLen(c, size) ==
    LET remaining == c.data_end - pos
    IN  IF remaining <= 0 THEN 0
        ELSE IF size < 0 \/ size > remaining THEN remaining
        ELSE size

\* Chunk.read(size); size = -1 is the default argument
read(r, size) ==
    /\ readers[r].live
    /\ IF readers[r].closed
       THEN /\ last' = Call("read", r, "OSError", 0, <<>>, size, 0)
            /\ UNCHANGED pos
       ELSE LET data == FileBytes(pos, ReadLen(readers[r], size))
            IN  /\ last' = Call("read", r, "ok", 0, data, size, 0)
                /\ pos' = pos + Len(data)
    /\ UNCHANGED <<layout, fmt, opts, stream, readers>>

\* SeekTarget with whence 0 and whence 1 exchanged
SeekTarget_Swapped(c, offset, whence) ==
    IF whence = 0 THEN pos + offset
    ELSE IF whence = 1 THEN c.data_start + offset
    ELSE c.data_end + offset

\* SeekTarget with whence 1 taken from the start of the data
SeekTarget_FromStart(c, offset, whence) ==
    IF whence = 0 THEN c.data_start + offset
    ELSE IF whence = 1 THEN c.data_start + offset
    ELSE c.data_end + offset

\* the target Chunk.seek computes before clamping
SeekTarget(c, offset, whence) ==
    IF whence = 0 THEN c.data_start + offset
    ELSE IF whence = 1 THEN pos + offset
    ELSE c.data_end + offset

\* Clamp without its upper bound
Clamp_NoUpper(c, target) ==
    IF target < c.data_start THEN c.data_start ELSE target

\* the clamp of Chunk.seek
Clamp(c, target) ==
    LET t == IF target < c.data_start THEN c.data_start ELSE target
    IN  IF t > c.data_end THEN c.data_end ELSE t

\* seek that takes a whence it does not know for whence 2
seek_AnyWhence(r, offset, whence) ==
    /\ readers[r].live
    /\ IF readers[r].closed
       THEN /\ last' = Call("seek", r, "OSError", 0, <<>>, offset, whence)
            /\ UNCHANGED pos
       ELSE LET target == Clamp(readers[r], SeekTarget(readers[r], offset, whence))
            IN  /\ pos' = target
                /\ last' = Call("seek", r, "ok", target - readers[r].data_start,
                                <<>>, offset, whence)
    /\ UNCHANGED <<layout, fmt, opts, stream, readers>>

\* Chunk.seek(pos, whence)
seek(r, offset, whence) ==
    /\ readers[r].live
    /\ IF readers[r].closed
       THEN /\ last' = Call("seek", r, "OSError", 0, <<>>, offset, whence)
            /\ UNCHANGED pos
       ELSE IF whence \notin {0, 1, 2}
       THEN /\ last' = Call("seek", r, "ValueError", 0, <<>>, offset, whence)
            /\ UNCHANGED pos
       ELSE LET target == Clamp(readers[r], SeekTarget(readers[r], offset, whence))
            IN  /\ pos' = target
                /\ last' = Call("seek", r, "ok", target - readers[r].data_start,
                                <<>>, offset, whence)
    /\ UNCHANGED <<layout, fmt, opts, stream, readers>>

\* tell that keeps its answer inside the chunk
tell_Clamped(r) ==
    /\ readers[r].live
    /\ IF readers[r].closed
       THEN last' = Call("tell", r, "OSError", 0, <<>>, 0, 0)
       ELSE last' = Call("tell", r, "ok",
                         IF pos < readers[r].data_start THEN 0
                         ELSE IF pos > readers[r].data_end
                         THEN readers[r].data_end - readers[r].data_start
                         ELSE pos - readers[r].data_start,
                         <<>>, 0, 0)
    /\ UNCHANGED <<layout, fmt, opts, stream, pos, readers>>

\* tell without its closed check
tell_Unchecked(r) ==
    /\ readers[r].live
    /\ last' = Call("tell", r, "ok", pos - readers[r].data_start, <<>>, 0, 0)
    /\ UNCHANGED <<layout, fmt, opts, stream, pos, readers>>

\* Chunk.tell
tell(r) ==
    /\ readers[r].live
    /\ IF readers[r].closed
       THEN last' = Call("tell", r, "OSError", 0, <<>>, 0, 0)
       ELSE last' = Call("tell", r, "ok", pos - readers[r].data_start, <<>>, 0, 0)
    /\ UNCHANGED <<layout, fmt, opts, stream, pos, readers>>

\* SkipBody that seeks to the end of the data and leaves the pad byte unread
SkipBody_NoPad(r, op) ==
    /\ readers[r].live
    /\ IF ~readers[r].closed
       THEN /\ pos' = readers[r].data_start + readers[r].data_size
            /\ readers' = [readers EXCEPT ![r].closed = TRUE]
       ELSE UNCHANGED <<pos, readers>>
    /\ last' = Call(op, r, "ok", 0, <<>>, 0, 0)
    /\ UNCHANGED <<layout, fmt, opts, stream>>

\* SkipBody that moves the stream whether or not the chunk is closed
SkipBody_Unconditional(r, op) ==
    /\ readers[r].live
    /\ pos' = readers[r].data_end
    /\ readers' = [readers EXCEPT ![r].closed = TRUE]
    /\ last' = Call(op, r, "ok", 0, <<>>, 0, 0)
    /\ UNCHANGED <<layout, fmt, opts, stream>>

\* SkipBody that marks the chunk closed and leaves the stream where it is
SkipBody_NoSeek(r, op) ==
    /\ readers[r].live
    /\ readers' = [readers EXCEPT ![r].closed = TRUE]
    /\ last' = Call(op, r, "ok", 0, <<>>, 0, 0)
    /\ UNCHANGED <<layout, fmt, opts, stream, pos>>

\* SkipBody that fails on a closed chunk as read, seek and tell do
SkipBody_Raises(r, op) ==
    /\ readers[r].live
    /\ IF ~readers[r].closed
       THEN /\ pos' = readers[r].data_end
            /\ readers' = [readers EXCEPT ![r].closed = TRUE]
            /\ last' = Call(op, r, "ok", 0, <<>>, 0, 0)
       ELSE /\ last' = Call(op, r, "OSError", 0, <<>>, 0, 0)
            /\ UNCHANGED <<pos, readers>>
    /\ UNCHANGED <<layout, fmt, opts, stream>>

\* the body of Chunk.skip, reported as call op
SkipBody(r, op) ==
    /\ readers[r].live
    /\ IF ~readers[r].closed
       THEN /\ pos' = readers[r].data_end
            /\ readers' = [readers EXCEPT ![r].closed = TRUE]
       ELSE UNCHANGED <<pos, readers>>
    /\ last' = Call(op, r, "ok", 0, <<>>, 0, 0)
    /\ UNCHANGED <<layout, fmt, opts, stream>>

\* Chunk.skip
skip(r) == SkipBody(r, "skip")

\* Chunk.close
close(r) == SkipBody(r, "close")

\* Chunk.isatty
isatty(r) ==
    /\ readers[r].live
    /\ last' = Call("isatty", r, "ok", 0, <<>>, 0, 0)
    /\ UNCHANGED <<layout, fmt, opts, stream, pos, readers>>

\* the arguments the callers pass: read sizes (-1 is the default), seek
\* offsets with each whence of the code, and one whence it does not know
Sizes == -1..MaxArg
Offsets == -MaxArg..MaxArg
SeekArgs == (Offsets \X {0, 1, 2}) \cup {<<0, 3>>, <<1, 3>>}

\* every method call on the Chunk held by r
Methods(r) ==
    \/ getname(r)
    \/ getsize(r)
    \/ \E size \in Sizes : read(r, size)
    \/ \E a \in SeekArgs : seek(r, a[1], a[2])
    \/ tell(r)
    \/ skip(r)
    \/ close(r)
    \/ isatty(r)

\* Any caller: both variables in use, their calls interleaved at will
Next ==
    \/ \E r \in Readers : ChunkInit(r, opts)
    \/ \E r \in Readers : Methods(r)

Spec == Init /\ [][Next]_vars

\* A caller that holds one Chunk and moves the stream through it alone
NextSolo ==
    \/ ChunkInit("c1", opts)
    \/ Methods("c1")

SpecSolo == Init /\ [][NextSolo]_vars

\* A caller that constructs one Chunk and then only reads it and asks where
\* it is
NextReads ==
    \/ ChunkInit("c1", opts)
    \/ \E size \in Sizes : read("c1", size)
    \/ tell("c1")

SpecReads == Init /\ [][NextReads]_vars

\* A caller that walks the container: while True: c = Chunk(file); c.skip(),
\* left by the exception of the construction that fails.  The container has
\* 0 to MaxWalk chunks.
MaxWalk == 3
WalkLayouts == UNION {[1..n -> 0..MaxLen] : n \in 0..MaxWalk}

InitWalk ==
    /\ layout \in WalkLayouts
    /\ fmt \in Formats
    /\ opts \in {f \in Flags : f.align = fmt.align /\ f.bigendian = fmt.bigendian}
    /\ stream = Container(layout, fmt, 1)
    /\ pos = 0
    /\ readers = [r \in Readers |-> NoChunk]
    /\ last = NoCall

\* c = Chunk(file), while no construction has failed
WalkConstruct ==
    /\ ~(last.op = "init" /\ last.kind # "ok")
    /\ ChunkInit("c1", opts)

\* c.skip(), the statement after the construction
WalkSkip ==
    /\ ~readers["c1"].closed
    /\ skip("c1")

\* the loop turns: the name c is free for the next construction and the
\* Chunk it held is out of reach
WalkRebind ==
    /\ readers["c1"].live
    /\ readers["c1"].closed
    /\ readers' = [readers EXCEPT !["c1"] = NoChunk]
    /\ UNCHANGED <<layout, fmt, opts, stream, pos, last>>

NextWalk ==
    \/ WalkConstruct
    \/ WalkSkip
    \/ WalkRebind

\* the loop is sequential code: a statement that can run does run
SpecWalk == InitWalk /\ [][NextWalk]_vars /\ WF_vars(NextWalk)

-----------------------------------------------------------------------------
(* What the container holds, from the writer's side *)

Live(r) == readers[r].live
Open(r) == readers[r].live /\ ~readers[r].closed
Closed(r) == readers[r].live /\ readers[r].closed

RECURSIVE HeaderAt(_)
\* the stream offset at which create_chunk's k-th chunk begins
HeaderAt(k) ==
    IF k = 1 THEN 0
    ELSE HeaderAt(k - 1) + HEADER + layout[k - 1]
         + (IF fmt.align /\ layout[k - 1] % 2 = 1 THEN 1 ELSE 0)

\* r was constructed with the writer's flags on the header of chunk k
OnChunk(r, k) ==
    /\ Live(r)
    /\ opts = fmt
    /\ readers[r].data_start = HeaderAt(k) + HEADER

\* the last call was op on r and returned
Returned(op, r) == last.op = op /\ last.r = r /\ last.kind = "ok"

-----------------------------------------------------------------------------
(* Claims *)

\* C1: with alignment enabled and an odd-length payload, no byte returned by
\* read comes from the pad byte's position or beyond: after a read that
\* returned bytes, the cursor is at most data_start + data_size.
C1_PadNeverRead ==
    \A r \in Readers :
        (/\ Returned("read", r)
         /\ last.data # <<>>
         /\ \E k \in 1..Len(layout) : OnChunk(r, k)
         /\ readers[r].align
         /\ readers[r].data_size % 2 = 1)
        => pos <= readers[r].data_start + readers[r].data_size

\* C2: while the one Chunk of a caller that uses no other is open, the cursor
\* stays in [data_start, data_end], tell() returns a value in
\* [0, data_end - data_start], and the bytes a read returned lie at or after
\* data_start and before data_end.
C2_CursorInChunk ==
    Open("c1") =>
        LET c == readers["c1"]
        IN  /\ c.data_start <= pos
            /\ pos <= c.data_end
            /\ Returned("tell", "c1") => last.val \in 0..(c.data_end - c.data_start)
            /\ Returned("read", "c1") => pos - Len(last.data) >= c.data_start

C2_Witness ==
    /\ Open("c1")
    /\ Returned("read", "c1")
    /\ last.arg > Len(last.data)
    /\ last.data # <<>>
    /\ pos = readers["c1"].data_end
    /\ pos < Len(stream)

C4_SkipLandsAfterPad ==
    [][\A r \in Readers :
          (Open(r) /\ last'.op = "skip" /\ last'.r = r)
          => /\ pos' = readers[r].data_start + readers[r].data_size
                       + (IF readers[r].align /\ readers[r].data_size % 2 = 1
                          THEN 1 ELSE 0)
             /\ readers'[r].closed]_vars

C4_Witness ==
    /\ last.op = "skip"
    /\ last.kind = "ok"
    /\ Closed(last.r)
    /\ readers[last.r].align
    /\ readers[last.r].data_size % 2 = 1
    /\ pos = readers[last.r].data_start + readers[last.r].data_size + 1

\* C5: in a container of two well-formed chunks, a Chunk constructed once the
\* Chunk on chunk 1 has been skipped is constructed without error and has
\* chunk 2's identifier and payload length.
C5_NextHeaderParsed ==
    (/\ last.op = "init"
     /\ last.r = "c2"
     /\ OnChunk("c1", 1)
     /\ Closed("c1"))
    => /\ last.kind = "ok"
       /\ readers["c2"].name = ChunkId(2)
       /\ readers["c2"].data_size = layout[2]

C5_Witness ==
    /\ Returned("init", "c2")
    /\ OnChunk("c1", 1)
    /\ Closed("c1")
    /\ layout[1] % 2 = 1
    /\ fmt.align
    /\ readers["c2"].data_size = layout[2]
    /\ layout[2] > 0

\* C6: a Chunk is open right after its construction; it never stops existing;
\* once closed it stays closed; only skip or close, called on it, close it;
\* and skip and close never fail, on a closed chunk either.
C6_Lifecycle ==
    /\ [](\A r \in Readers :
            /\ Returned("init", r) => Open(r)
            /\ (last.r = r /\ last.op \in {"skip", "close"})
               => (last.kind = "ok" /\ Closed(r)))
    /\ [][\A r \in Readers :
            /\ Live(r) => Live(r)'
            /\ Closed(r) => Closed(r)'
            /\ (Open(r) /\ Closed(r)')
               => (last'.r = r /\ last'.op \in {"skip", "close"})]_vars

\* skip returned on a chunk that was closed before: the stream is not at its end
C6_Witness ==
    /\ last.op = "skip"
    /\ last.kind = "ok"
    /\ Closed(last.r)
    /\ pos # readers[last.r].data_end

\* C7: getname and getsize return the identifier and the data size of the
\* header the Chunk was constructed on, open or closed, and change neither the
\* stream position nor any Chunk; no call changes a Chunk's identifier, data
\* size, data start or data end.
C7_Accessors ==
    /\ [](\A r \in Readers :
            /\ Returned("getname", r) => last.data = readers[r].name
            /\ Returned("getsize", r) => last.val = readers[r].data_size
            /\ \A k \in 1..Len(layout) :
                 OnChunk(r, k) =>
                    /\ readers[r].name = ChunkId(k)
                    /\ readers[r].data_size = layout[k]
            /\ (Live(r) /\ last.r = r /\ last.op \in {"getname", "getsize"})
               => last.kind = "ok")
    /\ [][/\ last'.op \in {"getname", "getsize"} => (pos' = pos /\ readers' = readers)
          /\ \A r \in Readers :
               Live(r) =>
                  /\ readers'[r].name = readers[r].name
                  /\ readers'[r].data_size = readers[r].data_size
                  /\ readers'[r].data_start = readers[r].data_start
                  /\ readers'[r].data_end = readers[r].data_end]_vars

C7_Witness ==
    /\ last.op = "getsize"
    /\ last.kind = "ok"
    /\ Closed(last.r)
    /\ OnChunk(last.r, 2)
    /\ last.val = layout[2]
    /\ last.val % 2 = 1
    /\ fmt.inclheader

\* the clamp of x into [lo, hi]
ClampInto(x, lo, hi) == IF x < lo THEN lo ELSE IF x > hi THEN hi ELSE x

\* C8: seek on an open chunk with whence 0, 1 or 2 does not fail; it moves the
\* stream to base + offset clamped into [data_start, data_end], base being
\* data_start, the stream position before the call, or data_end, and returns
\* that position less data_start.
C8_SeekClamps ==
    [][\A r \in Readers :
          (Open(r) /\ last'.op = "seek" /\ last'.r = r /\ last'.whence \in {0, 1, 2})
          => LET c == readers[r]
                 base == CASE last'.whence = 0 -> c.data_start
                           [] last'.whence = 1 -> pos
                           [] last'.whence = 2 -> c.data_end
                 to == ClampInto(base + last'.arg, c.data_start, c.data_end)
             IN  /\ last'.kind = "ok"
                 /\ pos' = to
                 /\ last'.val = to - c.data_start]_vars

\* a seek relative to the current position that was clamped at data_end
C8_Witness ==
    /\ last.op = "seek"
    /\ last.kind = "ok"
    /\ last.whence = 1
    /\ last.arg > 1
    /\ Open(last.r)
    /\ pos = readers[last.r].data_end
    /\ last.val = 1

C10_Extent ==
    \A r \in Readers :
        Live(r) =>
            LET c == readers[r]
            IN  c.data_end - c.data_start =
                  IF c.align /\ c.data_size % 2 = 1
                  THEN c.data_size + 1 ELSE c.data_size

\* a Chunk just constructed without alignment on an odd payload
C10_Witness ==
    /\ last.op = "init"
    /\ last.kind = "ok"
    /\ ~readers[last.r].align
    /\ readers[last.r].data_size % 2 = 1
    /\ readers[last.r].data_end - readers[last.r].data_start
         = readers[last.r].data_size

\* the size field of the header that ends at stream offset p, decoded with
\* the most significant byte first or last
SizeField(p, big) ==
    IF big
    THEN ((stream[p - 3] * 256 + stream[p - 2]) * 256 + stream[p - 1]) * 256 + stream[p]
    ELSE ((stream[p] * 256 + stream[p - 1]) * 256 + stream[p - 2]) * 256 + stream[p - 3]

\* C11: a construction that read a whole header either fails with ValueError,
\* binding nothing, when the size includes the header and the decoded value v
\* is below 8, or succeeds with data size v - 8 when the size includes the
\* header and v >= 8, and with data size v, 0 included, when it does not.
C11_SizeResolution ==
    (last.op = "init" /\ last.kind \in {"ok", "ValueError"}) =>
        LET v == SizeField(pos, opts.bigendian)
            c == readers[last.r]
        IN  IF opts.inclheader /\ v < HEADER
            THEN last.kind = "ValueError" /\ ~c.live
            ELSE /\ last.kind = "ok"
                 /\ c.live
                 /\ c.data_size = (IF opts.inclheader THEN v - HEADER ELSE v)

\* a construction refused for a header-inclusive size below 8
C11_Witness ==
    /\ last.op = "init"
    /\ last.kind = "ValueError"
    /\ opts.inclheader
    /\ SizeField(pos, opts.bigendian) \in 1..(HEADER - 1)
    /\ ~Live(last.r)

\* C12: a construction with fewer than 8 bytes between the stream position
\* and the end of the stream fails with EOFError and binds nothing, and a
\* variable is bound only by a construction that returned.
C12_TruncatedHeader ==
    [][/\ (last'.op = "init" /\ Len(stream) - pos < HEADER)
          => (last'.kind = "EOFError" /\ readers' = readers)
       /\ \A r \in Readers :
            (~Live(r) /\ Live(r)')
            => (last'.op = "init" /\ last'.r = r /\ last'.kind = "ok"
                /\ Len(stream) - pos >= HEADER)]_vars

\* the second construction failed for want of a header while the first
\* chunk is still open: the stream is at its end and c2 is not bound
C12_Witness ==
    /\ last.op = "init"
    /\ last.r = "c2"
    /\ last.kind = "EOFError"
    /\ ~Live("c2")
    /\ Open("c1")
    /\ pos = Len(stream)

\* C13: seek on an open chunk with a whence other than 0, 1 and 2 fails with
\* ValueError and leaves the stream position and every Chunk as they were.
C13_InvalidWhence ==
    [][\A r \in Readers :
          (Open(r) /\ last'.op = "seek" /\ last'.r = r /\ last'.whence \notin {0, 1, 2})
          => /\ last'.kind = "ValueError"
             /\ pos' = pos
             /\ readers' = readers]_vars

C13_Witness ==
    /\ last.op = "seek"
    /\ last.kind = "ValueError"
    /\ last.whence = 3
    /\ last.arg = 1
    /\ Open(last.r)
    /\ pos > readers[last.r].data_start
    /\ pos < readers[last.r].data_end

\* C14: on a Chunk over an even-length payload P, read() straight after the
\* construction returns exactly P and leaves the stream at data_start + len(P),
\* the header of the next chunk; read() straight after a read() returns
\* nothing and leaves the stream there.
C14_EvenFullRead ==
    [][(/\ OnChunk("c1", 1)
        /\ Open("c1")
        /\ layout[1] % 2 = 0
        /\ last'.op = "read"
        /\ last'.arg = -1)
       => /\ (last.op = "init")
             => /\ last'.kind = "ok"
                /\ last'.data = Payload(1, layout[1])
                /\ pos' = readers["c1"].data_start + layout[1]
                /\ pos' = HeaderAt(2)
          /\ (last.op = "read" /\ last.arg = -1)
             => /\ last'.kind = "ok"
                /\ last'.data = <<>>
                /\ pos' = pos
                /\ pos' = HeaderAt(2)]_vars

\* the second read() of a non-empty even-length payload has returned nothing
C14_Witness ==
    /\ OnChunk("c1", 1)
    /\ Open("c1")
    /\ layout[1] = 2
    /\ Returned("read", "c1")
    /\ last.arg = -1
    /\ last.data = <<>>
    /\ pos = HeaderAt(2)

\* C15: after a construction followed by reads alone, on a stream that holds
\* the whole chunk, tell() returns the number of payload bytes the reads have
\* returned: the reads returned the bytes from data_start to the cursor, of
\* which those below data_start + data_size are payload.
C15_TellCountsPayload ==
    (/\ OnChunk("c1", 1)
     /\ Returned("tell", "c1"))
    => last.val = Min(pos - readers["c1"].data_start, readers["c1"].data_size)

\* C16: seek(0, 0) followed by read() returns the bytes that read() straight
\* after the construction returns.
C16_RewindRereads ==
    [][(/\ Open("c1")
        /\ last'.op = "read"
        /\ last'.arg = -1
        /\ \/ last.op = "init"
           \/ last.op = "seek" /\ last.kind = "ok" /\ last.arg = 0 /\ last.whence = 0)
       => /\ last'.kind = "ok"
          /\ last'.data = FileBytes(readers["c1"].data_start,
                                    readers["c1"].data_end - readers["c1"].data_start)]_vars

\* read() has returned the two payload bytes of the first chunk and left the
\* stream at its end, from where seek(0, 0) and read() return them again
C16_Witness ==
    /\ OnChunk("c1", 1)
    /\ layout[1] = 2
    /\ Returned("read", "c1")
    /\ last.arg = -1
    /\ last.data = Payload(1, 2)
    /\ pos = readers["c1"].data_end

\* C17: read() on a chunk that skip() has closed returns an empty bytes
\* object.
C17_ReadEmptyAfterSkip ==
    \A r \in Readers :
        (Closed(r) /\ last.op = "read" /\ last.r = r)
        => (last.kind = "ok" /\ last.data = <<>>)

\* C18: two open Chunks on one stream are not kept apart.  tell() of an open
\* Chunk reports the stream position as another Chunk left it, below 0 and
\* above the length of its extent included, and read() of an open Chunk from
\* a position below its data_start returns the bytes found there.
C18_NoIsolation ==
    /\ [](\A r \in Readers :
            (Open(r) /\ Returned("tell", r))
            => last.val = pos - readers[r].data_start)
    /\ [][\A r \in Readers :
            (/\ Open(r)
             /\ pos < readers[r].data_start
             /\ last'.op = "read"
             /\ last'.r = r
             /\ last'.arg # 0)
            => /\ last'.kind = "ok"
               /\ last'.data # <<>>
               /\ last'.data = SubSeq(stream, pos + 1, pos + Len(last'.data))
               /\ pos' = pos + Len(last'.data)]_vars

\* with both chunks open, the Chunk of the second chunk has read bytes that
\* all lie before its data_start and the stream is outside its extent
C18_Witness ==
    /\ OnChunk("c1", 1)
    /\ OnChunk("c2", 2)
    /\ Open("c1")
    /\ Open("c2")
    /\ Returned("read", "c2")
    /\ last.data # <<>>
    /\ pos < readers["c2"].data_start

\* C19: no call on a closed Chunk moves the stream or changes a Chunk.
C19_ClosedNeverMoves ==
    [][\A r \in Readers :
          (Closed(r) /\ last'.r = r)
          => (pos' = pos /\ readers' = readers)]_vars

\* a second skip() of the first Chunk, after the second Chunk has taken the
\* stream past the first chunk, has left the stream there
C19_Witness ==
    /\ Closed("c1")
    /\ Live("c2")
    /\ last.op = "skip"
    /\ last.r = "c1"
    /\ pos > readers["c2"].data_start
    /\ pos > readers["c1"].data_end

\* the walk stands at the header of chunk k, no Chunk held
AtHeader(k) == ~Live("c1") /\ pos = HeaderAt(k)

\* the walk holds the open Chunk of chunk k, just constructed
Entered(k) ==
    /\ OnChunk("c1", k)
    /\ Open("c1")
    /\ readers["c1"].name = ChunkId(k)
    /\ readers["c1"].data_size = layout[k]
    /\ pos = HeaderAt(k) + HEADER

\* the walk holds the closed Chunk of chunk k, just skipped
Left(k) ==
    /\ OnChunk("c1", k)
    /\ Closed("c1")
    /\ pos = HeaderAt(k + 1)

\* the construction at the end of the stream has failed
WalkDone ==
    /\ last.op = "init"
    /\ last.kind = "EOFError"
    /\ ~Live("c1")
    /\ pos = Len(stream)
    /\ pos = HeaderAt(Len(layout) + 1)

\* C20: on a stream of N chunks read with the flags they were written with,
\* the loop of construction and skip() finds every construction at the header
\* of the next chunk in stream order, each construction before the end
\* succeeds, each turn of the loop leaves the stream at least 8 further, and
\* the loop ends with the construction after the N-th chunk failing with
\* EOFError at the end of the stream.
C20_WalkTerminates ==
    /\ [](opts = fmt =>
            \/ WalkDone
            \/ \E k \in 1..(Len(layout) + 1) : AtHeader(k) /\ last.kind = "ok"
            \/ \E k \in 1..Len(layout) : Entered(k) \/ Left(k))
    /\ [][opts = fmt =>
            /\ \A k \in 1..Len(layout) :
                 /\ (AtHeader(k) /\ last'.op = "init")
                    => (last'.kind = "ok" /\ Entered(k)')
                 /\ (Entered(k) /\ last'.op = "skip")
                    => (Left(k)' /\ pos' >= HeaderAt(k) + HEADER /\ pos' >= pos)
                 /\ (Left(k) /\ ~Live("c1")') => (AtHeader(k + 1)' /\ pos' > HeaderAt(k))
            /\ (AtHeader(Len(layout) + 1) /\ last'.op = "init") => WalkDone']_vars
    /\ <>(opts # fmt \/ WalkDone)

\* the walk of three chunks, one of them with a pad byte, has ended
C20_Witness ==
    /\ opts = fmt
    /\ Len(layout) = MaxWalk
    /\ fmt.align
    /\ layout[2] = 1
    /\ WalkDone

====
